---- MODULE Spec2Model ----
(***************************************************************************)
(* FormatTestOutput (src/unnamed/part_000): the dependent-test engine.     *)
(*                                                                         *)
(* A caller builds a promise chain: checks attached with then              *)
(* (out._it(name, body)), handlers attached with catch (allowAssertion,    *)
(* startBypass(code), resumeBypass(code)) and sections                     *)
(* (then(() => out.section(name, contents))).  The model executes such a   *)
(* chain one attached step at a time.  `chain` is the sequence of steps    *)
(* attached so far, `settled` the state of the promise at the end of the   *)
(* chain, and the remaining variables are the engine's state and what an   *)
(* observer of the console, of the check bodies and of the "error" event   *)
(* sees.  A check is named by its position in the chain.                   *)
(***************************************************************************)
EXTENDS Integers, Sequences, FiniteSets, TLC

VARIABLES
    listener,     \* the "error" listener registered on the engine
    chain,        \* the steps attached (and settled) so far
    trace,        \* per step: the promise and the indentation before and
                  \* after it, whether its function was called, and the
                  \* section call it ends
    settled,      \* state of the promise at the end of the (innermost) chain
    indentation,  \* FormatTestOutput.indentation
    stack,        \* sections whose contents are running, innermost last
    log,          \* console output, one record per console call
    calls,        \* names of the check bodies invoked, in order
    emitted,      \* values handed to the "error" listener, in order
    cbs,          \* allowAssertion callbacks invoked: step, value, indentation
    pending,      \* the check whose body has been called and has not settled
    running,      \* names of the check bodies in progress
    poll,         \* one ensureStarted / ensureServiceStarted invocation: its
                  \* arguments, the clock, the probe in flight, the attempts
                  \* made and its outcome
    test,         \* one CloudMachineTest.test() call: the stage reached, the
                  \* promise handed from stage to stage, exitCode, the
                  \* machine, and what has happened so far
    par           \* sections started side by side on the engine

vars == <<listener, chain, trace, settled, indentation, stack, log, calls,
          emitted, cbs, pending, running, poll, test, par>>

(***************************************************************************)
(* Bounds.                                                                 *)
(***************************************************************************)
\* steps of a chain of checks and handlers (SpecChain)
MaxChain == 4
\* steps of a chain with sections (Spec)
MaxSteps == 3
\* steps attached after a startBypass handler (SpecBypass)
MaxSkipped == 3
\* handlers attached to the failing check of the first section (SpecSiblings)
MaxHandlers == 2

\* codes handed to startBypass / resumeBypass
Codes == {"skip-b", "no-text", "few-words"}

\* what the registered "error" listener does: none is registered, it
\* returns, or it throws
Listeners == {"none", "returns", "throws"}

(***************************************************************************)
(* Values that are thrown or rejected with.  `name` is what err.name       *)
(* reads ("" when the value has no such property), `kind` tells an Error   *)
(* object (has a stack, instanceof Error) from a string and from any       *)
(* other object without a stack, `src` and `by` identify the value: the    *)
(* step that created it and the code that did.                             *)
(***************************************************************************)
Value(name, kind, code, src, by) ==
    [name |-> name, kind |-> kind, code |-> code, src |-> src, by |-> by]

NoValue == Value("", "none", "", 0, "none")

\* what a check body or a section's contents can fail with
BodyValues(k) ==
    { Value("AssertionError", "error", "", k, "body"),
      Value("Error", "error", "", k, "body"),
      Value("", "string", "", k, "body"),
      Value("", "object", "", k, "body") }

\* class Bypass extends Error: name is the constructor's name
Bypass(code, k) == Value("Bypass", "error", code, k, "startBypass")

\* EventEmitter's error for an "error" event nobody listens to
UnhandledError(k) == Value("Error", "error", "", k, "emit")
\* the listener's own exception
ListenerError(k) == Value("Error", "error", "", k, "listener")
\* msg.replace is not a function
TypeError(k) == Value("TypeError", "error", "", k, "indentLines")
\* the allowAssertion callback's own exception
CallbackError(k) == Value("Error", "error", "", k, "cb")

HasStack(v) == v.kind = "error"
IsString(v) == v.kind = "string"
InstanceOfError(v) == v.kind = "error"

Resolved == [state |-> "resolved", err |-> NoValue]
Rejected(v) == [state |-> "rejected", err |-> v]

\* one console call
Line(stream, kind, name, indent, of) ==
    [stream |-> stream, kind |-> kind, name |-> name, indent |-> indent,
     of |-> of]

(***************************************************************************)
(* The steps a caller can attach.                                          *)
(***************************************************************************)
Step(op, mode, val, code, cb) ==
    [op |-> op, mode |-> mode, val |-> val, code |-> code, cb |-> cb]

\* then(out._it(k, body)): the body completes, or fails with a value
ItSteps(k) ==
    { Step("it", "complete", NoValue, "", "none") }
    \cup { Step("it", "fail", v, "", "none") : v \in BodyValues(k) }

\* catch(out.allowAssertion), catch(err => out.allowAssertion(err, cb)),
\* catch(out.allowAssertion(cb)); the callback returns or throws
AllowSteps ==
    { Step("allowAssertion", "direct", NoValue, "", "none") }
    \cup { Step("allowAssertion", m, NoValue, "", cb) :
              m \in {"directCb", "curried"}, cb \in {"returns", "throws"} }

StartSteps == { Step("startBypass", "", NoValue, c, "none") : c \in Codes }
ResumeSteps == { Step("resumeBypass", "", NoValue, c, "none") : c \in Codes }

\* then(() => out.section(k, contents)): contents returns a promise (the
\* steps up to the matching endSection), or throws before returning one
SectionSteps(k) ==
    { Step("section", "returns", NoValue, "", "none") }
    \cup { Step("section", "throws", v, "", "none") : v \in BodyValues(k) }

EndSectionStep == Step("endSection", "", NoValue, "", "none")

ThenOps == {"it", "section"}
CatchOps == {"allowAssertion", "startBypass", "resumeBypass"}

(***************************************************************************)
(* FormatTestOutput, as pure functions of the engine's state.              *)
(***************************************************************************)

\* EventEmitter.emit("error", err) as `it` uses it: without a listener the
\* event is thrown (err itself when it is an Error, a new Error otherwise);
\* a listener's exception propagates to the emitter
emit(lst, err, k) ==
    CASE lst = "none" ->
            [threw |-> TRUE,
             err |-> IF InstanceOfError(err) THEN err ELSE UnhandledError(k),
             heard |-> <<>>]
      [] lst = "returns" ->
            [threw |-> FALSE, err |-> NoValue, heard |-> <<err>>]
      [] lst = "throws" ->
            [threw |-> TRUE, err |-> ListenerError(k), heard |-> <<err>>]

\* indentLines(err.stack ? err.stack : err): msg.replace exists on strings
indentLinesThrows(err) == ~HasStack(err) /\ ~IsString(err)

\* the handler of it's .catch(err => ...): the event, the marker, the
\* detail one level deeper, and the rethrow
itCatch(k, err, ind, lst) ==
    LET e == emit(lst, err, k)
        marker == Line("err", "fail", k, ind, NoValue)
    IN  IF e.threw
        THEN [calls |-> <<k>>, lines |-> <<>>, heard |-> e.heard,
              indentation |-> ind, settled |-> Rejected(e.err)]
        ELSE IF indentLinesThrows(err)
        THEN [calls |-> <<k>>, lines |-> <<marker>>, heard |-> e.heard,
              indentation |-> ind + 1, settled |-> Rejected(TypeError(k))]
        ELSE [calls |-> <<k>>,
              lines |-> <<marker, Line("out", "detail", k, ind + 1, err)>>,
              heard |-> e.heard, indentation |-> ind,
              settled |-> Rejected(err)]

\* faulty variant: Promise.resolve(contents()).then(() => contents())
itCallsTwice(k, contents, ind, lst) ==
    IF contents.mode = "complete"
    THEN [calls |-> <<k, k>>,
          lines |-> <<Line("out", "pass", k, ind, NoValue)>>,
          heard |-> <<>>, indentation |-> ind, settled |-> Resolved]
    ELSE itCatch(k, contents.val, ind, lst)

\* it(name, contents): contents is called once, inside then; its success
\* is logged, its failure goes to the catch handler
it(k, contents, ind, lst) ==
    IF contents.mode = "complete"
    THEN [calls |-> <<k>>,
          lines |-> <<Line("out", "pass", k, ind, NoValue)>>,
          heard |-> <<>>, indentation |-> ind, settled |-> Resolved]
    ELSE itCatch(k, contents.val, ind, lst)

\* faulty variant: the name test is dropped, every value is absorbed
allowAnything(err, cb, ind, k) ==
    [threw |-> FALSE, err |-> NoValue, indentation |-> ind, cbs |-> <<>>]

\* faulty variant: the callback is called before the name is tested
allowCallbackFirst(err, cb, ind, k) ==
    IF cb = "none"
    THEN [threw |-> err.name # "AssertionError",
          err |-> IF err.name # "AssertionError" THEN err ELSE NoValue,
          indentation |-> ind, cbs |-> <<>>]
    ELSE IF cb = "throws"
    THEN [threw |-> TRUE, err |-> CallbackError(k), indentation |-> ind + 1,
          cbs |-> <<[at |-> k, err |-> err, indentation |-> ind + 1]>>]
    ELSE [threw |-> err.name # "AssertionError",
          err |-> IF err.name # "AssertionError" THEN err ELSE NoValue,
          indentation |-> ind,
          cbs |-> <<[at |-> k, err |-> err, indentation |-> ind + 1]>>]

\* allowAssertion(err, cb), err not a function
allowAssertion(err, cb, ind, k) ==
    IF err.name # "AssertionError"
    THEN [threw |-> TRUE, err |-> err, indentation |-> ind, cbs |-> <<>>]
    ELSE IF cb = "none"
    THEN [threw |-> FALSE, err |-> NoValue, indentation |-> ind, cbs |-> <<>>]
    ELSE IF cb = "throws"
    THEN [threw |-> TRUE, err |-> CallbackError(k), indentation |-> ind + 1,
          cbs |-> <<[at |-> k, err |-> err, indentation |-> ind + 1]>>]
    ELSE [threw |-> FALSE, err |-> NoValue, indentation |-> ind,
          cbs |-> <<[at |-> k, err |-> err, indentation |-> ind + 1]>>]

\* the callback the two-argument call receives: catch passes the handler
\* one argument; allowAssertion(cb) returns err => allowAssertion(err, cb)
allowAssertionCallback(step) ==
    IF step.mode = "direct" THEN "none" ELSE step.cb

\* faulty variant: the name test is dropped, every value starts a bypass
startBypassAnything(code, err, k) ==
    [err |-> Bypass(code, k), lines |-> <<>>]

\* the handler startBypass(code) returns; it always throws
startBypass(code, err, k) ==
    IF err.name # "AssertionError"
    THEN [err |-> err,
          lines |-> <<Line("err", "refuse", 0, 0, NoValue),
                      Line("err", "error", 0, 0, err)>>]
    ELSE [err |-> Bypass(code, k), lines |-> <<>>]

\* faulty variant: the code is not compared
resumeAnyBypass(code, err) ==
    IF err.name # "Bypass"
    THEN [threw |-> TRUE, err |-> err]
    ELSE [threw |-> FALSE, err |-> NoValue]

\* faulty variant: the handler rethrows every value, a bypass is never resumed
resumeBypassNever(code, err) ==
    [threw |-> TRUE, err |-> err]

\* the handler resumeBypass(code) returns
resumeBypass(code, err) ==
    IF err.name # "Bypass" \/ err.code # code
    THEN [threw |-> TRUE, err |-> err]
    ELSE [threw |-> FALSE, err |-> NoValue]

\* section(name, contents) up to the call of contents: the header, the
\* increment, and contents() itself, which is called before Promise.resolve
\* can wrap it
section(k, contents, ind) ==
    [lines |-> <<Line("out", "blank", 0, 0, NoValue),
                 Line("out", "section", k, ind, NoValue),
                 Line("out", "blank", 0, 0, NoValue)>>,
     indentation |-> ind + 1,
     entered |-> contents.mode = "returns",
     settled |-> IF contents.mode = "returns" THEN Resolved
                 ELSE Rejected(contents.val)]

\* faulty variant: the catch is missing, contents' rejection is the section's
sectionPropagates(k, inner, ind) ==
    [lines |-> <<>>, indentation |-> ind - 1, settled |-> inner]

\* section's .catch(err => ...) and .then(() => --this.indentation) on the
\* promise contents returned
sectionSettled(k, inner, ind) ==
    [lines |-> IF inner.state = "rejected"
               THEN <<Line("err", "sectionError", k, 0, NoValue),
                      Line("err", "trace", k, 0, inner.err)>>
               ELSE <<>>,
     indentation |-> ind - 1,
     settled |-> Resolved,
     value |-> [kind |-> "number", n |-> ind - 1]]

(***************************************************************************)
(* TestMachine.ensureStarted and TestMachine.ensureServiceStarted.  Times  *)
(* are in milliseconds.  A probe is one call of this.ssh(...): it settles  *)
(* after dur ms or never, and whether it succeeds is fixed by the          *)
(* machine's script (it fails its first k probes, or every probe).         *)
(***************************************************************************)
Backoff == 100

MaxFails == 2

Timeouts == {50, 250}
SshTimeouts == {100}
Durations == {0, 50, 100, 200}
Lateness == {0, 50}

Scripts ==
    [always : {FALSE}, k : 0..MaxFails] \cup {[always |-> TRUE, k |-> 0]}

ProbeRuns ==
    [settles : {TRUE}, dur : Durations] \cup {[settles |-> FALSE, dur |-> 0]}

Calls == [timeout : Timeouts, sshTimeout : SshTimeouts, script : Scripts]

\* new TestError(message): exitCode || 1, name "TestError"
TestError(message) ==
    [name |-> "TestError", exitCode |-> 1, message |-> message]

NoError == [name |-> "", exitCode |-> 0, message |-> [none |-> TRUE]]

NoProbe == [start |-> 0, settles |-> FALSE, dur |-> 0, ok |-> FALSE]

NotCalled ==
    [pc |-> "idle", kind |-> "", timeout |-> 0, sshTimeout |-> 0,
     script |-> [always |-> FALSE, k |-> 0], started |-> 0, failures |-> 0,
     now |-> 0, probe |-> NoProbe, attempts |-> <<>>,
     outcome |-> [state |-> "pending", err |-> NoError]]

\* this.ssh(...) on a machine following the script: probe number n
\* (counted from 1) succeeds once the first k have failed
ssh(script, n, run, now) ==
    [start |-> now, settles |-> run.settles, dur |-> run.dur,
     ok |-> ~script.always /\ n > script.k]

\* ensureStarted(timeout, started, failures) up to the call of this.ssh;
\* an argument left out is <<>>
ensureStarted(timeout, started, failures, now) ==
    LET s == IF started = <<>> THEN now ELSE started[1]
        f == IF failures = <<>> \/ failures[1] = 0 THEN 0 ELSE failures[1]
    IN  IF now - s > timeout
        THEN [threw |-> TRUE, started |-> s, failures |-> f,
              err |-> TestError([timeout |-> timeout, failures |-> f])]
        ELSE [threw |-> FALSE, started |-> s, failures |-> f, err |-> NoError]

\* faulty variant: the poll gives up when the elapsed time reaches timeout
ensureServiceStartedEager(service, timeout, started, now) ==
    LET s == IF started = <<>> THEN now ELSE started[1]
    IN  IF now - s >= timeout /\ started # <<>>
        THEN [threw |-> TRUE, started |-> s, failures |-> 0,
              err |-> TestError([service |-> service, timeout |-> timeout])]
        ELSE [threw |-> FALSE, started |-> s, failures |-> 0, err |-> NoError]

\* ensureServiceStarted(service, timeout, started) up to the call of
\* this.ssh
ensureServiceStarted(service, timeout, started, now) ==
    LET s == IF started = <<>> THEN now ELSE started[1]
    IN  IF now - s > timeout
        THEN [threw |-> TRUE, started |-> s, failures |-> 0,
              err |-> TestError([service |-> service, timeout |-> timeout])]
        ELSE [threw |-> FALSE, started |-> s, failures |-> 0, err |-> NoError]

\* faulty variant: the handler starts the retry and does not return it
retryNotReturned(inner) ==
    [state |-> "resolved", err |-> NoError]

\* .catch(() => sleep(100).then(() => this.ensureStarted(...))): the
\* promise the handler returns settles as the inner call settles
retry(inner) == inner

\* promiseTimeout(this.ssh(...), this.opts.sshTimeout) in ensureStarted:
\* can the timer fire before the probe has settled?  ensureServiceStarted
\* awaits this.ssh(...) itself.
promiseTimeout(kind, probe, sshTimeout) ==
    /\ kind = "ssh"
    /\ ~probe.settles \/ probe.dur >= sshTimeout

\* can the probe settle before a timer on it fires?
settlesInTime(kind, probe, sshTimeout) ==
    /\ probe.settles
    /\ kind = "ssh" => probe.dur <= sshTimeout

(***************************************************************************)
(* CloudMachineTest.test() and the stages it chains.  A stage's promise    *)
(* is resolved or rejected with an error; errors carry a name and, for a   *)
(* TestError, the exit code it was constructed with.                       *)
(***************************************************************************)
maxInstances == 10

\* new TestError(msg, exitCode): exitCode || 1 (0 stands for "not given")
TestErrorWithCode(message, exitCode) ==
    [name |-> "TestError",
     exitCode |-> IF exitCode = 0 THEN 1 ELSE exitCode,
     message |-> message]

\* an Error that is not a TestError has no exitCode
PlainError(message) == [name |-> "Error", exitCode |-> 0, message |-> message]

NoFailure == [name |-> "", exitCode |-> 0, message |-> ""]

Fulfilled == [state |-> "resolved", err |-> NoFailure]
Failed(err) == [state |-> "rejected", err |-> err]

NotRun ==
    [pc |-> "prepareEnvironment", promise |-> Fulfilled, exitCode |-> 0,
     current |-> 0, old |-> 0, asked |-> <<>>, image |-> FALSE,
     created |-> FALSE, delete |-> "not run", destroy |-> FALSE,
     events |-> <<>>, rejected |-> {}, logged |-> <<>>, exited |-> <<>>]

\* preventRunawayServers() once getInstances has resolved to current
\* instances, old of them older than maxInstanceAge; answers are what the
\* prompter says to each question it is asked
preventRunawayServers(current, old, answers) ==
    LET count == current > maxInstances
        age == old > 0
        no == \/ count /\ ~answers.count
              \/ ~(count /\ ~answers.count) /\ age /\ ~answers.age
    IN  [asked |-> (IF count THEN <<[q |-> "count", a |-> answers.count]>>
                    ELSE <<>>)
                   \o (IF age /\ ~(count /\ ~answers.count)
                       THEN <<[q |-> "age", a |-> answers.age]>> ELSE <<>>),
         settled |-> IF no
                     THEN Failed(TestErrorWithCode("Runaway servers detected.", 0))
                     ELSE Fulfilled]

\* faulty variant: the handler logs the error and leaves exitCode alone
catchLogsOnly(exitCode, err) ==
    [exitCode |-> exitCode, settled |-> Fulfilled]

\* test()'s .catch(err => { if(this.exitCode === 0) { this.exitCode = 1; }
\* console.log(err); return true; })
catch(exitCode, err) ==
    [exitCode |-> IF exitCode = 0 THEN 1 ELSE exitCode, settled |-> Fulfilled]

\* faulty variant: _image is set only once the machine has been created
createInstanceImageLate(outcome) ==
    [image |-> outcome.state = "resolved", settled |-> outcome]

\* GCETestMachine.createInstance(): _image is set before gcloud is run;
\* outcome is how the gcloud command and ensureStarted end
createInstance(outcome) ==
    [image |-> TRUE, settled |-> outcome]

\* CloudMachineTest.destroyInstance() over GCETestMachine.destroyInstance():
\* nothing is run unless the prompter agrees and _image is set; deleted is
\* how the gcloud delete command ends
destroyInstance(answer, image, deleted) ==
    IF answer /\ image
    THEN [delete |-> IF deleted.state = "resolved" THEN "done" ELSE "failed",
          settled |-> deleted]
    ELSE [delete |-> "not run", settled |-> Fulfilled]

(***************************************************************************)
(* The state after construction: indentation 0, nothing logged; the        *)
(* caller may have registered an "error" listener before the first step.   *)
(***************************************************************************)
Init ==
    /\ listener \in Listeners
    /\ chain = <<>>
    /\ trace = <<>>
    /\ settled = Resolved
    /\ indentation = 0
    /\ stack = <<>>
    /\ log = <<>>
    /\ calls = <<>>
    /\ emitted = <<>>
    /\ cbs = <<>>
    /\ pending = <<>>
    /\ running = {}
    /\ poll = NotCalled
    /\ test = NotRun
    /\ par = <<>>

\* the name of the step being attached
Here == Len(chain) + 1

\* a step is attached: the promise it was attached to, the promise it
\* returns, whether its function was called, the indentation it leaves and
\* the section call it ends (0 when none)
Attach(step, out, ran, ind, sec) ==
    /\ chain' = Append(chain, step)
    /\ trace' = Append(trace, [in |-> settled, out |-> out, ran |-> ran,
                               before |-> indentation, after |-> ind,
                               sec |-> sec])
    /\ settled' = out
    /\ indentation' = ind

\* then(f) on a rejected promise and catch(f) on a resolved one pass the
\* state on without calling f
PassThrough(step) ==
    /\ \/ step.op \in ThenOps /\ settled.state = "rejected"
       \/ step.op \in CatchOps /\ settled.state = "resolved"
    /\ Attach(step, settled, FALSE, indentation, 0)
    /\ UNCHANGED <<pending, running, poll, test, par, listener, stack, log, calls, emitted, cbs>>

\* then(out._it(name, contents)) on a resolved promise
ThenIt(step) ==
    /\ step.op = "it"
    /\ settled.state = "resolved"
    /\ LET r == it(Here, step, indentation, listener)
       IN  /\ Attach(step, r.settled, TRUE, r.indentation, 0)
           /\ calls' = calls \o r.calls
           /\ log' = log \o r.lines
           /\ emitted' = emitted \o r.heard
    /\ UNCHANGED <<pending, running, poll, test, par, listener, stack, cbs>>

\* catch(allowAssertion) on a rejected promise
CatchAllowAssertion(step) ==
    /\ step.op = "allowAssertion"
    /\ settled.state = "rejected"
    /\ LET r == allowAssertion(settled.err, allowAssertionCallback(step),
                               indentation, Here)
       IN  /\ Attach(step, IF r.threw THEN Rejected(r.err) ELSE Resolved,
                     TRUE, r.indentation, 0)
           /\ cbs' = cbs \o r.cbs
    /\ UNCHANGED <<pending, running, poll, test, par, listener, stack, log, calls, emitted>>

\* catch(startBypass(code)) on a rejected promise
CatchStartBypass(step) ==
    /\ step.op = "startBypass"
    /\ settled.state = "rejected"
    /\ LET r == startBypass(step.code, settled.err, Here)
       IN  /\ Attach(step, Rejected(r.err), TRUE, indentation, 0)
           /\ log' = log \o r.lines
    /\ UNCHANGED <<pending, running, poll, test, par, listener, stack, calls, emitted, cbs>>

\* catch(resumeBypass(code)) on a rejected promise
CatchResumeBypass(step) ==
    /\ step.op = "resumeBypass"
    /\ settled.state = "rejected"
    /\ LET r == resumeBypass(step.code, settled.err)
       IN  Attach(step, IF r.threw THEN Rejected(r.err) ELSE Resolved,
                  TRUE, indentation, 0)
    /\ UNCHANGED <<pending, running, poll, test, par, listener, stack, log, calls, emitted, cbs>>

\* then(() => out.section(name, contents)) on a resolved promise: the
\* header, ++indentation and the call of contents.  When contents throws,
\* so does section, and the promise of the enclosing then rejects
ThenSection(step) ==
    /\ step.op = "section"
    /\ settled.state = "resolved"
    /\ LET r == section(Here, step, indentation)
       IN  /\ Attach(step, r.settled, TRUE, r.indentation,
                     IF r.entered THEN 0 ELSE Here)
           /\ log' = log \o r.lines
           /\ stack' = IF r.entered THEN Append(stack, Here) ELSE stack
    /\ UNCHANGED <<pending, running, poll, test, par, listener, calls, emitted, cbs>>

\* the promise contents returned has settled: section's catch and then
SectionSettled(step) ==
    /\ step.op = "endSection"
    /\ stack # <<>>
    /\ LET k == stack[Len(stack)]
           r == sectionSettled(k, settled, indentation)
       IN  /\ Attach(step, r.settled, TRUE, r.indentation, k)
           /\ log' = log \o r.lines
    /\ stack' = SubSeq(stack, 1, Len(stack) - 1)
    /\ UNCHANGED <<pending, running, poll, test, par, listener, calls, emitted, cbs>>

(***************************************************************************)
(* SpecChain: every chain of at most MaxChain checks and handlers.         *)
(***************************************************************************)
ChainSteps ==
    IF Len(chain) < MaxChain
    THEN ItSteps(Here) \cup AllowSteps \cup StartSteps \cup ResumeSteps
    ELSE {}

NextChain ==
    \/ \E step \in ChainSteps : ThenIt(step)
    \/ \E step \in ChainSteps : CatchAllowAssertion(step)
    \/ \E step \in ChainSteps : CatchStartBypass(step)
    \/ \E step \in ChainSteps : CatchResumeBypass(step)
    \/ \E step \in ChainSteps : PassThrough(step)

SpecChain == Init /\ [][NextChain]_vars

(***************************************************************************)
(* Spec: every chain of at most MaxSteps checks, handlers and (nested)     *)
(* sections.                                                               *)
(***************************************************************************)
Steps ==
    IF Len(chain) < MaxSteps
    THEN ItSteps(Here) \cup AllowSteps \cup StartSteps \cup ResumeSteps
         \cup SectionSteps(Here) \cup {EndSectionStep}
    ELSE {}

Next ==
    \/ \E step \in Steps : ThenIt(step)
    \/ \E step \in Steps : CatchAllowAssertion(step)
    \/ \E step \in Steps : CatchStartBypass(step)
    \/ \E step \in Steps : CatchResumeBypass(step)
    \/ \E step \in Steps : ThenSection(step)
    \/ \E step \in Steps : SectionSettled(step)
    \/ \E step \in Steps : PassThrough(step)

Spec == Init /\ [][Next]_vars

(***************************************************************************)
(* SpecBypass: a check fails an assertion, startBypass(code) catches it,   *)
(* and at most MaxSkipped further checks and handlers follow.              *)
(***************************************************************************)
AssertionFailure(k) == Value("AssertionError", "error", "", k, "body")

BypassSteps ==
    CASE Len(chain) = 0 ->
            { Step("it", "fail", AssertionFailure(Here), "", "none") }
      [] Len(chain) = 1 -> StartSteps
      [] Len(chain) > 1 /\ Len(chain) < 2 + MaxSkipped ->
            ItSteps(Here) \cup AllowSteps \cup StartSteps \cup ResumeSteps
      [] OTHER -> {}

NextBypass ==
    \/ \E step \in BypassSteps : ThenIt(step)
    \/ \E step \in BypassSteps : CatchAllowAssertion(step)
    \/ \E step \in BypassSteps : CatchStartBypass(step)
    \/ \E step \in BypassSteps : CatchResumeBypass(step)
    \/ \E step \in BypassSteps : PassThrough(step)

SpecBypass == Init /\ [][NextBypass]_vars

(***************************************************************************)
(* SpecScenario: the chain A (passes), B (fails an assertion),             *)
(* catch(startBypass(code)), C (would fail if run),                        *)
(* catch(resumeBypass(code)), E (passes), for every code, every value C    *)
(* would fail with and every listener.                                     *)
(***************************************************************************)
ScenarioSteps ==
    CASE Len(chain) = 0 -> { Step("it", "complete", NoValue, "", "none") }
      [] Len(chain) = 1 ->
            { Step("it", "fail", AssertionFailure(Here), "", "none") }
      [] Len(chain) = 2 -> StartSteps
      [] Len(chain) = 3 ->
            { Step("it", "fail", v, "", "none") : v \in BodyValues(Here) }
      [] Len(chain) = 4 ->
            { Step("resumeBypass", "", NoValue, chain[3].code, "none") }
      [] Len(chain) = 5 -> { Step("it", "complete", NoValue, "", "none") }
      [] OTHER -> {}

NextScenario ==
    \/ \E step \in ScenarioSteps : ThenIt(step)
    \/ \E step \in ScenarioSteps : CatchStartBypass(step)
    \/ \E step \in ScenarioSteps : CatchResumeBypass(step)
    \/ \E step \in ScenarioSteps : PassThrough(step)

SpecScenario == Init /\ [][NextScenario]_vars

(***************************************************************************)
(* SpecSiblings: section(1, () => it(2, fails).catch(h)...) with at most   *)
(* MaxHandlers handlers, then, chained by the same caller,                 *)
(* section(n, () => it(n + 1, passes)).                                    *)
(***************************************************************************)
Ended == Cardinality({ i \in DOMAIN chain : chain[i].op = "endSection" })

SiblingSteps ==
    CASE Len(chain) = 0 ->
            { Step("section", "returns", NoValue, "", "none") }
      [] Len(chain) = 1 ->
            { Step("it", "fail", v, "", "none") : v \in BodyValues(Here) }
      [] Len(chain) > 1 /\ Ended = 0 ->
            {EndSectionStep}
            \cup IF Len(chain) < 2 + MaxHandlers
                 THEN AllowSteps \cup StartSteps \cup ResumeSteps
                 ELSE {}
      [] Ended = 1 /\ chain[Len(chain)].op = "endSection" ->
            { Step("section", "returns", NoValue, "", "none") }
      [] Ended = 1 /\ chain[Len(chain)].op = "section" ->
            { Step("it", "complete", NoValue, "", "none") }
      [] Ended = 1 /\ chain[Len(chain)].op = "it" -> {EndSectionStep}
      [] OTHER -> {}

NextSiblings ==
    \/ \E step \in SiblingSteps : ThenIt(step)
    \/ \E step \in SiblingSteps : CatchAllowAssertion(step)
    \/ \E step \in SiblingSteps : CatchStartBypass(step)
    \/ \E step \in SiblingSteps : CatchResumeBypass(step)
    \/ \E step \in SiblingSteps : ThenSection(step)
    \/ \E step \in SiblingSteps : SectionSettled(step)
    \/ \E step \in SiblingSteps : PassThrough(step)

SpecSiblings == Init /\ [][NextSiblings]_vars

(***************************************************************************)
(* SpecTwoBypasses: the chain of the doc example "Using two bypasses",     *)
(* check1, startBypass("no-text"), check2, startBypass("few-words"),       *)
(* check3, allowAssertion, resumeBypass("few-words"), check4,              *)
(* allowAssertion, resumeBypass("no-text"), check5, where every check      *)
(* passes or fails its assertion.                                          *)
(***************************************************************************)
AssertionOutcomes(k) ==
    { Step("it", "complete", NoValue, "", "none"),
      Step("it", "fail", AssertionFailure(k), "", "none") }

TwoBypassSteps ==
    CASE Len(chain) \in {0, 2, 4, 7, 10} -> AssertionOutcomes(Here)
      [] Len(chain) = 1 -> { Step("startBypass", "", NoValue, "no-text", "none") }
      [] Len(chain) = 3 ->
            { Step("startBypass", "", NoValue, "few-words", "none") }
      [] Len(chain) \in {5, 8} ->
            { Step("allowAssertion", "direct", NoValue, "", "none") }
      [] Len(chain) = 6 ->
            { Step("resumeBypass", "", NoValue, "few-words", "none") }
      [] Len(chain) = 9 ->
            { Step("resumeBypass", "", NoValue, "no-text", "none") }
      [] OTHER -> {}

NextTwoBypasses ==
    \/ \E step \in TwoBypassSteps : ThenIt(step)
    \/ \E step \in TwoBypassSteps : CatchAllowAssertion(step)
    \/ \E step \in TwoBypassSteps : CatchStartBypass(step)
    \/ \E step \in TwoBypassSteps : CatchResumeBypass(step)
    \/ \E step \in TwoBypassSteps : PassThrough(step)

SpecTwoBypasses == Init /\ [][NextTwoBypasses]_vars

(***************************************************************************)
(* The readiness polls.  One invocation is followed from the caller's      *)
(* call to its outcome; the synchronous part of each (recursive) call --   *)
(* the defaults, the elapsed-time test and the start of the probe -- is    *)
(* one step, and so is each promise callback.                              *)
(***************************************************************************)
Engine ==
    <<listener, chain, trace, settled, indentation, stack, log, calls,
      emitted, cbs, pending, running, test, par>>

\* the record kept of a probe: when it started, the started and failures
\* the call that made it was working with, and (once over) when and how the
\* poll saw it end
Attempt(probe, r) ==
    [start |-> probe.start, started |-> r.started, failures |-> r.failures,
     ok |-> probe.ok, settles |-> probe.settles, dur |-> probe.dur,
     end |-> 0, seen |-> "in flight"]

\* the poll after the synchronous part r of a call made at time now
Called(p, r, now, run, outcome) ==
    IF r.threw
    THEN [p EXCEPT !.pc = "done", !.now = now, !.started = r.started,
                   !.failures = r.failures, !.outcome = outcome]
    ELSE LET probe == ssh(p.script, Len(p.attempts) + 1, run, now)
         IN  [p EXCEPT !.pc = "probing", !.now = now, !.started = r.started,
                       !.failures = r.failures, !.probe = probe,
                       !.attempts = Append(@, Attempt(probe, r))]

\* the poll once the probe in flight is over at time now
Over(p, pc, now, seen) ==
    [p EXCEPT !.pc = pc, !.now = now,
              !.attempts[Len(p.attempts)].end = now,
              !.attempts[Len(p.attempts)].seen = seen]

\* GCETestMachine.createInstance: this.ensureStarted(timeout)
EnsureStarted(c, run) ==
    /\ poll.pc = "idle"
    /\ LET p == [poll EXCEPT !.kind = "ssh", !.timeout = c.timeout,
                             !.sshTimeout = c.sshTimeout, !.script = c.script]
           r == ensureStarted(c.timeout, <<>>, <<>>, poll.now)
       IN  poll' = Called(p, r, poll.now, run, [state |-> "rejected", err |-> r.err])
    /\ UNCHANGED Engine

\* a test calls machine.ensureServiceStarted(service, timeout)
EnsureServiceStarted(c, run) ==
    /\ poll.pc = "idle"
    /\ LET p == [poll EXCEPT !.kind = "service", !.timeout = c.timeout,
                             !.sshTimeout = c.sshTimeout, !.script = c.script]
           r == ensureServiceStarted("svc", c.timeout, <<>>, poll.now)
       IN  poll' = Called(p, r, poll.now, run, [state |-> "rejected", err |-> r.err])
    /\ UNCHANGED Engine

\* the probe succeeded: .then(() => console.log(...)) in ensureStarted, the
\* probe's own result in ensureServiceStarted
ProbeResolves ==
    /\ poll.pc = "probing"
    /\ poll.probe.ok
    /\ settlesInTime(poll.kind, poll.probe, poll.sshTimeout)
    /\ poll' = [Over(poll, "done", poll.probe.start + poll.probe.dur, "ok")
                  EXCEPT !.outcome = [state |-> "resolved", err |-> NoError]]
    /\ UNCHANGED Engine

\* the probe failed: the catch handler starts sleep(100)
ProbeRejects ==
    /\ poll.pc = "probing"
    /\ ~poll.probe.ok
    /\ settlesInTime(poll.kind, poll.probe, poll.sshTimeout)
    /\ poll' = Over(poll, "sleeping", poll.probe.start + poll.probe.dur,
                    "failed")
    /\ UNCHANGED Engine

\* the timer of promiseTimeout fired first: the catch handler starts
\* sleep(100)
ProbeTimesOut ==
    /\ poll.pc = "probing"
    /\ promiseTimeout(poll.kind, poll.probe, poll.sshTimeout)
    /\ poll' = Over(poll, "sleeping", poll.probe.start + poll.sshTimeout,
                    "timeout")
    /\ UNCHANGED Engine

\* sleep(100) is over (late ms after it was due): the recursive call
Retry(late, run) ==
    /\ poll.pc = "sleeping"
    /\ LET now == poll.now + Backoff + late
           r == IF poll.kind = "ssh"
                THEN ensureStarted(poll.timeout, <<poll.started>>,
                                   <<poll.failures + 1>>, now)
                ELSE ensureServiceStarted("svc", poll.timeout,
                                          <<poll.started>>, now)
       IN  poll' = Called(poll, r, now, run,
                          retry([state |-> "rejected", err |-> r.err]))
    /\ UNCHANGED Engine

NextPoll ==
    \/ \E c \in Calls, run \in ProbeRuns : EnsureStarted(c, run)
    \/ \E c \in Calls, run \in ProbeRuns : EnsureServiceStarted(c, run)
    \/ ProbeResolves
    \/ ProbeRejects
    \/ ProbeTimesOut
    \/ \E late \in Lateness, run \in ProbeRuns : Retry(late, run)

\* CloudMachineTest registers no "error" listener
InitPoll == Init /\ listener = "none"

SpecPoll == InitPoll /\ [][NextPoll]_vars

\* the event loop runs every timer and every promise callback that is due
SpecPollFair == SpecPoll /\ WF_vars(NextPoll)

(***************************************************************************)
(* SpecAsync: checks whose bodies suspend.  contents() returns a promise;  *)
(* the call of the body and the settling of that promise are two steps,    *)
(* and the handlers of it (the log line, the catch handler) run in the     *)
(* second.                                                                 *)
(***************************************************************************)
\* faulty variant: () => { this.it(name, contents); } -- the promise of it
\* is dropped, the chain goes on at once
itDetached(p) == TRUE

\* _it(name, contents) is () => this.it(name, contents): the chain's promise
\* follows the promise it returns, which settles after the body and it's
\* own handlers; p holds the checks called and not settled
itReturned(p) == p = <<>>

\* then(out._it(name, contents)) on a resolved promise: contents is called
ItCalled(step) ==
    /\ step.op = "it"
    /\ settled.state = "resolved"
    /\ itReturned(pending)
    /\ LET k == Len(chain) + Len(pending) + 1
       IN  /\ pending' = Append(pending, [k |-> k, step |-> step])
           /\ running' = running \cup {k}
           /\ calls' = Append(calls, k)
    /\ UNCHANGED <<listener, chain, trace, settled, indentation, stack, log,
                   emitted, cbs, poll, test, par>>

\* the promise contents() returned settles: then(log) or the catch handler
ItSettled ==
    /\ pending # <<>>
    /\ LET p == Head(pending)
           r == it(p.k, p.step, indentation, listener)
       IN  /\ Attach(p.step, r.settled, TRUE, r.indentation, 0)
           /\ log' = log \o r.lines
           /\ emitted' = emitted \o r.heard
           /\ running' = running \ {p.k}
    /\ pending' = Tail(pending)
    /\ UNCHANGED <<listener, stack, calls, cbs, poll, test, par>>

AsyncSteps ==
    IF Len(chain) + Len(pending) < MaxChain
    THEN ItSteps(Len(chain) + Len(pending) + 1) \cup AllowSteps
    ELSE {}

NextAsync ==
    \/ \E step \in AsyncSteps : ItCalled(step)
    \/ ItSettled
    \/ \E step \in AsyncSteps : itReturned(pending) /\ CatchAllowAssertion(step)
    \/ \E step \in AsyncSteps : itReturned(pending) /\ PassThrough(step)

SpecAsync == Init /\ [][NextAsync]_vars

(***************************************************************************)
(* SpecTest: one call of CloudMachineTest.test() on a GCETestMachine.      *)
(* Each then/catch callback of the chain in test() is one step; while      *)
(* automatedTests runs, the steps are those of the engine.                 *)
(***************************************************************************)
MaxTestSteps == 3

Currents == {0, 9, 10, 11}
ExitCodes == {0, 2, 3}

Answers == [count : BOOLEAN, age : BOOLEAN]

Instances == { i \in [current : Currents, old : {0, 1}] : i.old <= i.current }

StageOutcomes(stage) ==
    { Fulfilled, Failed(PlainError(stage)) }
    \cup IF stage = "setup"
         THEN { Failed(TestErrorWithCode("Machine has not responded to SSH", 0)) }
         ELSE {}

Stages == <<"prepareEnvironment", "setup", "runTests", "manualSteps",
            "catch1", "cleanup", "catch2", "exit", "exited">>

\* the callback attached after the one at pc
After(pc) ==
    IF pc = "automatedTests" THEN "manualSteps"
    ELSE Stages[(CHOOSE i \in DOMAIN Stages : Stages[i] = pc) + 1]

\* the stage at test.pc has been called and has settled with promise p
Settle(stage, p) ==
    [test EXCEPT !.pc = After(stage), !.promise = p,
                 !.events = Append(@, stage),
                 !.rejected = IF p.state = "rejected" THEN @ \cup {stage}
                              ELSE @]

\* test(): this.prepareEnvironment() -- ensureCredentials, getInstances,
\* preventRunawayServers
PrepareEnvironment(inst, answers, listed) ==
    /\ test.pc = "prepareEnvironment"
    /\ LET r == preventRunawayServers(inst.current, inst.old, answers)
           p == IF listed THEN r.settled
                ELSE Failed(PlainError("getInstances"))
       IN  test' = [Settle("prepareEnvironment", p)
                      EXCEPT !.current = inst.current, !.old = inst.old,
                             !.asked = IF listed THEN r.asked ELSE <<>>]
    /\ UNCHANGED <<listener, chain, trace, settled, indentation, stack, log,
                   calls, emitted, cbs, pending, running, poll, par>>

\* then on a rejected promise, catch on a resolved one: the callback is
\* not called
Skipped ==
    /\ \/ /\ test.pc \in {"setup", "runTests", "manualSteps"}
          /\ test.promise.state = "rejected"
       \/ /\ test.pc \in {"catch1", "catch2"}
          /\ test.promise.state = "resolved"
    /\ test' = [test EXCEPT !.pc = After(test.pc)]
    /\ UNCHANGED <<listener, chain, trace, settled, indentation, stack, log,
                   calls, emitted, cbs, pending, running, poll, par>>

\* .then(() => this.setup()): createInstance
Setup(outcome) ==
    /\ test.pc = "setup"
    /\ test.promise.state = "resolved"
    /\ LET r == createInstance(outcome)
       IN  test' = [Settle("setup", r.settled)
                      EXCEPT !.created = TRUE, !.image = r.image]
    /\ UNCHANGED <<listener, chain, trace, settled, indentation, stack, log,
                   calls, emitted, cbs, pending, running, poll, par>>

\* .then(() => this.runTests()): yesNo("Run automated tests?")
RunTests(answer) ==
    /\ test.pc = "runTests"
    /\ test.promise.state = "resolved"
    /\ test' = IF answer
               THEN [test EXCEPT !.pc = "automatedTests",
                                 !.events = Append(@, "runTests")]
               ELSE Settle("runTests", Fulfilled)
    /\ UNCHANGED <<listener, chain, trace, settled, indentation, stack, log,
                   calls, emitted, cbs, pending, running, poll, par>>

\* the promise automatedTests returned (the engine's chain) has settled
AutomatedTestsSettled ==
    /\ test.pc = "automatedTests"
    /\ stack = <<>>
    /\ LET p == IF settled.state = "resolved" THEN Fulfilled
                ELSE Failed(PlainError(settled.err.name))
       IN  test' = [Settle("automatedTests", p)
                      EXCEPT !.events = test.events,
                             !.rejected = IF p.state = "rejected"
                                          THEN test.rejected \cup {"runTests"}
                                          ELSE test.rejected]
    /\ UNCHANGED <<listener, chain, trace, settled, indentation, stack, log,
                   calls, emitted, cbs, pending, running, poll, par>>

\* an overriding automatedTests fails with new TestError(msg, exitCode)
AutomatedTestsRejected(exitCode) ==
    /\ test.pc = "automatedTests"
    /\ chain = <<>>
    /\ test' = [Settle("automatedTests",
                       Failed(TestErrorWithCode("automatedTests", exitCode)))
                  EXCEPT !.events = test.events,
                         !.rejected = test.rejected \cup {"runTests"}]
    /\ UNCHANGED <<listener, chain, trace, settled, indentation, stack, log,
                   calls, emitted, cbs, pending, running, poll, par>>

\* .then(() => this.manualSteps()): manualSSH
ManualSteps(outcome) ==
    /\ test.pc = "manualSteps"
    /\ test.promise.state = "resolved"
    /\ test' = Settle("manualSteps", outcome)
    /\ UNCHANGED <<listener, chain, trace, settled, indentation, stack, log,
                   calls, emitted, cbs, pending, running, poll, par>>

\* either .catch(err => ...) of test() on a rejected promise
Caught ==
    /\ test.pc \in {"catch1", "catch2"}
    /\ test.promise.state = "rejected"
    /\ LET r == catch(test.exitCode, test.promise.err)
       IN  test' = [test EXCEPT !.pc = After(test.pc), !.promise = r.settled,
                                !.exitCode = r.exitCode,
                                !.logged = Append(@, test.promise.err)]
    /\ UNCHANGED <<listener, chain, trace, settled, indentation, stack, log,
                   calls, emitted, cbs, pending, running, poll, par>>

\* .then(() => this.cleanup()): yesNo("Destroy the machine instance?") and
\* machine.destroyInstance()
Cleanup(answer, deleted) ==
    /\ test.pc = "cleanup"
    /\ LET r == destroyInstance(answer, test.image, deleted)
       IN  test' = [Settle("cleanup", r.settled)
                      EXCEPT !.destroy = answer, !.delete = r.delete]
    /\ UNCHANGED <<listener, chain, trace, settled, indentation, stack, log,
                   calls, emitted, cbs, pending, running, poll, par>>

\* .then(() => { ...; process.exit(this.exitCode); })
Exit ==
    /\ test.pc = "exit"
    /\ test' = [test EXCEPT !.pc = "exited", !.events = Append(@, "exit"),
                            !.exited = <<test.exitCode>>]
    /\ UNCHANGED <<listener, chain, trace, settled, indentation, stack, log,
                   calls, emitted, cbs, pending, running, poll, par>>

\* what automatedTests chains on the engine
TestSteps ==
    IF test.pc = "automatedTests" /\ Len(chain) < MaxTestSteps
    THEN { Step("it", "complete", NoValue, "", "none"),
           Step("it", "fail", AssertionFailure(Here), "", "none"),
           Step("allowAssertion", "direct", NoValue, "", "none"),
           Step("section", "returns", NoValue, "", "none"),
           EndSectionStep }
    ELSE {}

NextTest ==
    \/ \E inst \in Instances, answers \in Answers, listed \in BOOLEAN :
          PrepareEnvironment(inst, answers, listed)
    \/ Skipped
    \/ \E outcome \in StageOutcomes("setup") : Setup(outcome)
    \/ \E answer \in BOOLEAN : RunTests(answer)
    \/ \E step \in TestSteps : ThenIt(step)
    \/ \E step \in TestSteps : CatchAllowAssertion(step)
    \/ \E step \in TestSteps : ThenSection(step)
    \/ \E step \in TestSteps : SectionSettled(step)
    \/ \E step \in TestSteps : PassThrough(step)
    \/ AutomatedTestsSettled
    \/ \E exitCode \in ExitCodes : AutomatedTestsRejected(exitCode)
    \/ \E outcome \in StageOutcomes("manualSteps") : ManualSteps(outcome)
    \/ Caught
    \/ \E answer \in BOOLEAN, deleted \in StageOutcomes("cleanup") :
          Cleanup(answer, deleted)
    \/ Exit

SpecTest == Init /\ [][NextTest]_vars

(***************************************************************************)
(* SpecPar: sections started on one engine without chaining them, e.g.     *)
(* Promise.all([out.section(a, f), out.section(b, g)]).  The synchronous   *)
(* part of each section call is one step; the settling of the promise      *)
(* contents returned and section's own handlers are later steps, which     *)
(* interleave freely with those of the other sections.                     *)
(***************************************************************************)
MaxPar == 2

\* what a resolved promise holds
Undefined == [kind |-> "undefined", n |-> 0]
ContentValues ==
    { Undefined, [kind |-> "object", n |-> 0], [kind |-> "number", n |-> 0],
      [kind |-> "number", n |-> 1] }

\* contents is () => out.it(name, body), or returns a promise of its own
\* that resolves to a value or rejects
ParContents(k) ==
    { [kind |-> "it", step |-> st, outcome |-> Resolved, value |-> Undefined] :
        st \in ItSteps(k) }
    \cup { [kind |-> "promise", step |-> Step("", "", NoValue, "", "none"),
            outcome |-> Resolved, value |-> v] : v \in ContentValues }
    \cup { [kind |-> "promise", step |-> Step("", "", NoValue, "", "none"),
            outcome |-> Rejected(v), value |-> Undefined] :
         v \in BodyValues(k) }

\* out.section(name, contents), not chained to anything: the header, the
\* increment, the call of contents
SectionCalled(c) ==
    /\ Len(par) < MaxPar
    /\ LET k == Len(par) + 1
           r == section(k, Step("section", "returns", NoValue, "", "none"),
                        indentation)
       IN  /\ par' = Append(par, [pc |-> "contents", contents |-> c,
                                  before |-> indentation, inner |-> Resolved,
                                  returned |-> Undefined, value |-> Undefined])
           /\ indentation' = r.indentation
           /\ log' = log \o r.lines
    /\ UNCHANGED <<listener, chain, trace, settled, stack, calls, emitted, cbs,
                   pending, running, poll, test>>

\* the promise contents returned settles: for a check, its body is over
\* and the handlers of it run
ContentsSettled(s) ==
    /\ par[s].pc = "contents"
    /\ LET c == par[s].contents
           r == it(s, c.step, indentation, listener)
       IN  IF c.kind = "it"
           THEN /\ par' = [par EXCEPT ![s].pc = "settled",
                                      ![s].inner = r.settled,
                                      ![s].returned = c.value]
                /\ indentation' = r.indentation
                /\ log' = log \o r.lines
                /\ calls' = calls \o r.calls
                /\ emitted' = emitted \o r.heard
           ELSE /\ par' = [par EXCEPT ![s].pc = "settled",
                                      ![s].inner = c.outcome,
                                      ![s].returned = c.value]
                /\ UNCHANGED <<indentation, log, calls, emitted>>
    /\ UNCHANGED <<listener, chain, trace, settled, stack, cbs, pending,
                   running, poll, test>>

\* section's .catch(err => ...) and .then(() => --this.indentation)
SectionDone(s) ==
    /\ par[s].pc = "settled"
    /\ LET r == sectionSettled(s, par[s].inner, indentation)
       IN  /\ par' = [par EXCEPT ![s].pc = "done", ![s].value = r.value]
           /\ indentation' = r.indentation
           /\ log' = log \o r.lines
    /\ UNCHANGED <<listener, chain, trace, settled, stack, calls, emitted, cbs,
                   pending, running, poll, test>>

NextPar ==
    \/ \E c \in ParContents(Len(par) + 1) : SectionCalled(c)
    \/ \E s \in DOMAIN par : ContentsSettled(s)
    \/ \E s \in DOMAIN par : SectionDone(s)

SpecPar == Init /\ [][NextPar]_vars

(***************************************************************************)
(* What an observer reads off the history.                                 *)
(***************************************************************************)
\* step i is an `op` whose function was called
Ran(i, op) == chain[i].op = op /\ trace[i].ran
\* console calls of a kind that carry check (or section) name k
LinesOf(kind, k) ==
    { j \in DOMAIN log : log[j].kind = kind /\ log[j].name = k }
\* invocations of the body of check k
CallsOf(k) == { j \in DOMAIN calls : calls[j] = k }
\* notifications of the listener with a value check k failed with
HeardOf(k) == { j \in DOMAIN emitted : emitted[j].src = k }
\* callback invocations by the allowAssertion attached as step k
CbsAt(k) == { j \in DOMAIN cbs : cbs[j].at = k }
\* the success and failure markers of the checks, in order
Markers == SelectSeq(log, LAMBDA l : l.kind \in {"pass", "fail"})

(***************************************************************************)
(* Claims.                                                                 *)
(***************************************************************************)

\* C1: whether no listener is registered or one that returns, every check
\* that was run and whose body failed with an AssertionError f has exactly
\* one failure marker with its name in the log, together with f's detail,
\* and its promise is rejected with f itself.
C1_FailureLoggedAndReraised ==
    \A i \in DOMAIN chain :
        ( /\ listener \in {"none", "returns"}
          /\ Ran(i, "it")
          /\ chain[i].mode = "fail"
          /\ chain[i].val.name = "AssertionError" )
        => /\ Cardinality(LinesOf("fail", i)) = 1
           /\ \E j \in LinesOf("detail", i) : log[j].of = chain[i].val
           /\ trace[i].out = Rejected(chain[i].val)

\* C2: every check that was run and whose body completed has had its body
\* invoked exactly once, has exactly one success marker with its name and
\* no failure marker or detail in the log, was not reported to the
\* listener, and its promise is resolved.
C2_PassingCheck ==
    \A i \in DOMAIN chain :
        (Ran(i, "it") /\ chain[i].mode = "complete")
        => /\ Cardinality(CallsOf(i)) = 1
           /\ Cardinality(LinesOf("pass", i)) = 1
           /\ LinesOf("fail", i) = {}
           /\ LinesOf("detail", i) = {}
           /\ HeardOf(i) = {}
           /\ trace[i].out = Resolved

\* a passing check has run on an engine with a listener, after a failed one
C2_Witness ==
    \E i, j \in DOMAIN chain :
        /\ i < j
        /\ Ran(i, "it") /\ chain[i].mode = "fail"
        /\ Ran(j, "it") /\ chain[j].mode = "complete"
        /\ listener = "returns"
        /\ emitted # <<>>

\* C3: every section call that has finished (its contents threw, or the
\* promise contents returned has settled) has left the caller a resolved
\* promise, and has logged the signal that escaped its contents, if any.
C3_SectionNeverFails ==
    \A i \in DOMAIN chain :
        trace[i].sec # 0
        => /\ trace[i].out.state = "resolved"
           /\ trace[i].in.state = "rejected"
              => \E j \in LinesOf("trace", trace[i].sec) :
                    log[j].of = trace[i].in.err

\* C4: when a section call has finished, however its contents ended, the
\* indentation is what it was before the call.
C4_DepthRestored ==
    \A i \in DOMAIN chain :
        trace[i].sec # 0 => trace[i].after = trace[trace[i].sec].before

\* startBypass(c), attached as step i, turned an AssertionError into a Bypass
Opens(i, c) ==
    /\ Ran(i, "startBypass")
    /\ chain[i].code = c
    /\ trace[i].in.err.name = "AssertionError"

\* step j comes after that handler and no resumeBypass(c) lies in between
Skipping(i, j, c) ==
    /\ i < j
    /\ Opens(i, c)
    /\ \A m \in (i + 1)..(j - 1) :
          ~(chain[m].op = "resumeBypass" /\ chain[m].code = c)

\* C5: after startBypass(c) turned an AssertionError into a Bypass, no
\* check attached before the first later resumeBypass(c) is run, has its
\* body invoked or has anything logged under its name, whatever handlers
\* lie in between, and that resumeBypass(c) leaves the chain resolved.
C5_BypassSkips ==
    \A i, j \in DOMAIN chain : \A c \in Codes :
        Skipping(i, j, c)
        => /\ chain[j].op = "it"
              => /\ ~trace[j].ran
                 /\ CallsOf(j) = {}
                 /\ \A l \in DOMAIN log : log[l].name # j
           /\ (chain[j].op = "resumeBypass" /\ chain[j].code = c)
              => /\ trace[j].ran
                 /\ trace[j].out = Resolved

\* a bypass has passed a foreign handler and a check and has been resumed
C5_Witness ==
    \E i, h, j, r \in DOMAIN chain : \E c \in Codes :
        /\ i < h /\ h < j /\ j < r
        /\ Skipping(i, r, c)
        /\ chain[h].op \in CatchOps /\ trace[h].ran
        /\ chain[j].op = "it" /\ chain[j].mode = "complete"
        /\ chain[r].op = "resumeBypass" /\ chain[r].code = c
        /\ settled = Resolved

\* C6: a resumeBypass(code) handler that was called has resolved exactly
\* when the value it received is a Bypass with that code, and has otherwise
\* rejected with the very value it received.
C6_ResumeMatchesCode ==
    \A i \in DOMAIN chain :
        Ran(i, "resumeBypass")
        => LET err == trace[i].in.err
           IN  /\ trace[i].out.state = "resolved"
                  <=> (err.name = "Bypass" /\ err.code = chain[i].code)
               /\ trace[i].out.state = "rejected"
                  => trace[i].out.err = err

\* a Bypass was re-raised by a resumeBypass with another code and then
\* resumed by the one with its own
C6_Witness ==
    \E i, j \in DOMAIN chain :
        /\ i < j
        /\ Ran(i, "resumeBypass") /\ Ran(j, "resumeBypass")
        /\ trace[i].in.err.name = "Bypass"
        /\ trace[i].in.err.code # chain[i].code
        /\ trace[i].out.state = "rejected"
        /\ trace[j].in.err = trace[i].in.err
        /\ trace[j].out.state = "resolved"

\* C7: a startBypass(code) handler that received an AssertionError has
\* rejected with a new Bypass carrying code; one that received anything
\* else has rejected with the value it received; and every Bypass a promise
\* of the chain was ever rejected with was created that way, by a
\* startBypass of the same code.
C7_BypassOnlyFromAssertion ==
    /\ \A i \in DOMAIN chain :
          Ran(i, "startBypass")
          => IF trace[i].in.err.name = "AssertionError"
             THEN trace[i].out = Rejected(Bypass(chain[i].code, i))
             ELSE trace[i].out = trace[i].in
    /\ \A j \in DOMAIN chain :
          trace[j].out.err.name = "Bypass"
          => LET b == trace[j].out.err
             IN  /\ b.src \in 1..j
                 /\ Opens(b.src, b.code)
                 /\ b = Bypass(chain[b.src].code, b.src)

\* an active Bypass has passed a startBypass with another code unchanged
C7_Witness ==
    \E i, j \in DOMAIN chain :
        /\ i < j
        /\ Opens(i, chain[i].code)
        /\ Ran(j, "startBypass")
        /\ chain[j].code # chain[i].code
        /\ trace[j].in = Rejected(Bypass(chain[i].code, i))
        /\ trace[j].out = trace[j].in

C9_ScenarioLog ==
    Len(chain) = 6
    => /\ Markers = << Line("out", "pass", 1, 0, NoValue),
                       Line("err", "fail", 2, 0, NoValue),
                       Line("out", "pass", 6, 0, NoValue) >>
       /\ Cardinality(LinesOf("detail", 2)) = 1
       /\ \A l \in DOMAIN log : log[l].name # 4
       /\ CallsOf(4) = {}
       /\ settled = Resolved

\* C10: in the two-section run, the second section is entered, its check
\* is run and logs its success, whatever the first section's check failed
\* with and whatever handlers were attached to it.
C10_SiblingSectionRuns ==
    /\ \A i \in DOMAIN chain :
          (chain[i].op = "section" /\ i > 1) => trace[i].ran
    /\ \A i \in DOMAIN chain :
          (chain[i].op = "it" /\ chain[i].mode = "complete")
          => /\ trace[i].ran
             /\ Cardinality(CallsOf(i)) = 1
             /\ Cardinality(LinesOf("pass", i)) = 1
    /\ \A i \in DOMAIN chain :
          (chain[i].op = "endSection" /\ Ended = 2) => settled = Resolved

\* the first section absorbed an error nothing inside it had swallowed,
\* and the second section's check has logged its success
C10_Witness ==
    \E i, j \in DOMAIN chain :
        /\ i < j
        /\ chain[i].op = "endSection"
        /\ trace[i].in.state = "rejected"
        /\ trace[i].in.err.name # "AssertionError"
        /\ chain[j].op = "it" /\ chain[j].mode = "complete"
        /\ LinesOf("pass", j) # {}
        /\ Ended = 2

\* check i of the two-bypass chain passed its assertion
Passed(i) == chain[i].mode = "complete"

\* the checks of the two-bypass chain run as documented: check3 (step 5)
\* iff check1 and check2 passed, check4 (step 8) iff check1 passed, check5
\* (step 11) always
TwoBypassesRun ==
    /\ Len(chain) >= 5 => (trace[5].ran <=> (Passed(1) /\ Passed(3)))
    /\ Len(chain) >= 8 => (trace[8].ran <=> Passed(1))
    /\ Len(chain) >= 11 => trace[11].ran
    /\ \A j \in DOMAIN chain :
          trace[j].out.err.name = "Bypass"
          => \A m \in (trace[j].out.err.src + 1)..j :
                ~(chain[m].op = "resumeBypass"
                  /\ chain[m].code = trace[j].out.err.code)

Probes == Len(poll.attempts)

\* the succeeding probes that the timer of promiseTimeout cut short
Cut ==
    Cardinality({i \in DOMAIN poll.attempts :
                    poll.attempts[i].ok /\ poll.attempts[i].seen = "timeout"})

\* the machine fails its first k probes and then succeeds, k * 100ms < timeout
FailsFirst ==
    /\ poll.pc # "idle"
    /\ ~poll.script.always
    /\ poll.script.k * Backoff < poll.timeout

\* every probe made so far settles after a finite time
AllSettle == \A i \in DOMAIN poll.attempts : poll.attempts[i].settles

PollResolved == poll.pc = "done" /\ poll.outcome.state = "resolved"
PollRejected == poll.pc = "done" /\ poll.outcome.state = "rejected"

AlwaysFails == poll.pc # "idle" /\ poll.script.always /\ AllSettle

\* a probe is in flight that will never settle and has no timer on it
Hung ==
    /\ poll.pc = "probing"
    /\ ~poll.probe.settles
    /\ ~promiseTimeout(poll.kind, poll.probe, poll.sshTimeout)

\* the poll has failed with the TestError of the elapsed-time test, raised
\* when the elapsed time had passed timeout
FailedFatally ==
    /\ PollRejected
    /\ poll.outcome.err.name = "TestError"
    /\ poll.outcome.err.exitCode = 1
    /\ poll.now - poll.started > poll.timeout

\* C13: against a machine that fails every probe, each probe settling in
\* finite time, the poll never completes successfully, every probe made is
\* seen to fail, and the poll eventually ends with the TestError of the
\* elapsed-time test as the outcome of the original call.
C13_AlwaysFailingProbe ==
    /\ [](AlwaysFails
          => /\ ~PollResolved
             /\ poll.pc = "done" => FailedFatally
             /\ \A i \in DOMAIN poll.attempts :
                   poll.attempts[i].seen \in {"in flight", "failed", "timeout"})
    /\ AlwaysFails ~> (FailedFatally \/ ~AllSettle)

\* a reachability poll that made three failing probes and then ended with
\* the TestError
C13_Witness ==
    /\ AlwaysFails /\ FailedFatally
    /\ poll.kind = "ssh"
    /\ Probes = 3
    /\ poll.outcome.err.message.failures = 3

\* C14 as stated: whenever a poll (of either kind) fails fatally, the
\* message of its TestError carries the timeout it was given and the number
\* of probes made during the invocation.
C14_MessageCitesTimeoutAndAttempts ==
    (PollRejected /\ poll.outcome.err.name = "TestError")
    => LET message == poll.outcome.err.message
       IN  /\ "timeout" \in DOMAIN message
           /\ message.timeout = poll.timeout
           /\ "failures" \in DOMAIN message
           /\ message.failures = Probes

\* every probe started while the elapsed time was within timeout, after a
\* probe seen to fail and at least the backoff later, by a call working with
\* the start time of the first call
BackoffAndDeadline ==
    \A i \in DOMAIN poll.attempts :
       LET a == poll.attempts[i]
       IN  /\ a.start - a.started <= poll.timeout
           /\ a.started = poll.attempts[1].start
           /\ i > 1 => /\ poll.attempts[i - 1].seen \in {"failed", "timeout"}
                       /\ a.start - poll.attempts[i - 1].end >= Backoff

\* C15 as stated: no probe starts once the elapsed time exceeds timeout, a
\* retry comes at least 100 ms after the failure, the start time is carried
\* unchanged, and the attempt count each call works with is one more than
\* that of the call before (i - 1 for the call making probe i), in both
\* polls.
C15_BackoffDeadlineAndCount ==
    /\ BackoffAndDeadline
    /\ \A i \in DOMAIN poll.attempts : poll.attempts[i].failures = i - 1

\* C18 as stated: every probe in flight is bounded -- it settles or a timer
\* is set on it -- and a probe the poll took for a success settled within
\* the per-attempt bound, in both polls; so no poll waits for ever.
C18_EveryAttemptBounded ==
    /\ ~Hung
    /\ \A i \in DOMAIN poll.attempts :
          poll.attempts[i].seen = "ok"
          => poll.attempts[i].dur <= poll.sshTimeout

\* C16: at most one check body is in progress; bodies are called in
\* chaining order; when a body is called every check called before it has
\* settled (its body over, its lines logged), and whatever is logged about
\* a check is logged before the next body is called.
C16_OneBodyAtATime ==
    /\ Cardinality(running) <= 1
    /\ Len(pending) <= 1
    /\ \A i, j \in DOMAIN calls : i < j => calls[i] < calls[j]
    /\ \A i \in DOMAIN calls :
          \/ calls[i] <= Len(chain) /\ trace[calls[i]].ran
                                    /\ calls[i] \notin running
          \/ /\ i = Len(calls)
             /\ running = {calls[i]}
             /\ calls[i] = Len(chain) + 1
    /\ \A k \in running : \A l \in DOMAIN log : log[l].name < k
    /\ \A l, n \in DOMAIN log : l < n => log[l].name <= log[n].name

\* the third step's body is in progress after the first check failed, was
\* logged and was absorbed by the allowAssertion handler between them
C16_Witness ==
    /\ running = {3}
    /\ calls = <<1, 3>>
    /\ Len(chain) = 2
    /\ chain[1].op = "it" /\ chain[1].mode = "fail"
    /\ chain[2].op = "allowAssertion" /\ trace[2].ran
    /\ LinesOf("fail", 1) # {}

\* C17 as stated: on an engine with a registered listener, every check that
\* was run and whose body failed with f (an Error or a string) has been
\* reported to the listener
\* exactly once, with f, has its failure marker in the log and its promise
\* rejected with f, also when the listener throws; a check that completed
\* or was skipped has not been reported.
C17_ObserverDoesNotAlterFlow ==
    listener # "none"
    => \A i \in DOMAIN chain :
          IF Ran(i, "it") /\ chain[i].mode = "fail"
          THEN (HasStack(chain[i].val) \/ IsString(chain[i].val))
               =>
               /\ Cardinality(HeardOf(i)) = 1
               /\ \A j \in HeardOf(i) : emitted[j] = chain[i].val
               /\ Cardinality(LinesOf("fail", i)) = 1
               /\ trace[i].out = Rejected(chain[i].val)
          ELSE HeardOf(i) = {}

\* C19 as stated: in every state between two steps of a sequentially
\* chained run the indentation is non-negative and equals the number of
\* sections whose contents are running; the detail of a failed check and
\* the callbacks of allowAssertion were written one level deeper than the
\* step they belong to started at.
C19_DepthCountsOpenSections ==
    /\ indentation >= 0
    /\ indentation = Len(stack)
    /\ \A l \in DOMAIN log :
          log[l].kind = "detail" => log[l].indent = trace[log[l].name].before + 1
    /\ \A c \in DOMAIN cbs : cbs[c].indentation = trace[cbs[c].at].before + 1

\* C20 as stated: every it, allowAssertion, startBypass and resumeBypass
\* handler that was called left the indentation as it found it, whatever
\* the body failed with and whether or not the callback threw, and each
\* allowAssertion callback ran exactly one level deeper.
C20_HandlersKeepDepth ==
    /\ \A i \in DOMAIN chain :
          (trace[i].ran /\ chain[i].op \in {"it"} \cup CatchOps)
          => trace[i].after = trace[i].before
    /\ \A c \in DOMAIN cbs : cbs[c].indentation = trace[cbs[c].at].before + 1

\* C21 as stated: every line is written with the prefix of the indentation
\* current at the time -- a section header at the indentation before entry,
\* a check's marker at the indentation the check started at, its detail one
\* level deeper, and the lines about a signal a section absorbed at the
\* indentation current when the section's catch handler ran.
C21_LinesCarryCurrentIndent ==
    /\ \A l \in DOMAIN log :
          /\ log[l].kind \in {"section", "pass", "fail"}
             => log[l].indent = trace[log[l].name].before
          /\ log[l].kind = "detail"
             => log[l].indent = trace[log[l].name].before + 1
    /\ \A i \in DOMAIN chain :
          (chain[i].op = "endSection" /\ trace[i].in.state = "rejected")
          => \A l \in LinesOf("sectionError", trace[i].sec)
                      \cup LinesOf("trace", trace[i].sec) :
                log[l].indent = trace[i].before

\* how often a stage has been called in the run
Count(stage) ==
    Cardinality({i \in DOMAIN test.events : test.events[i] = stage})

\* cleanup is called at most once, exactly once when the chain is past it,
\* after every other stage that is called; a stage after a rejected one is
\* not called; process.exit comes last and after cleanup
CleanupOnceAndLast ==
    /\ Count("cleanup") <= 1
    /\ test.pc \in {"catch2", "exit", "exited"} => Count("cleanup") = 1
    /\ \A i, j \in DOMAIN test.events :
          i < j => /\ test.events[i] # "exit"
                   /\ test.events[i] = "cleanup" => test.events[j] = "exit"
                   /\ test.events[j] \notin {"cleanup", "exit"}
                      => test.events[i] \notin test.rejected
    /\ test.pc = "exited"
       => /\ Count("exit") = 1
          /\ test.events[Len(test.events)] = "exit"
          /\ test.events[Len(test.events) - 1] = "cleanup"

\* C22 as stated: cleanup runs exactly once, after the stages and before
\* the exit, and at exit a machine whose creation was attempted has been
\* deleted whenever the prompter agreed to destroy it.
C22_CleanupDeletesMachine ==
    /\ CleanupOnceAndLast
    /\ (test.pc = "exited" /\ test.created /\ test.destroy)
       => test.delete = "done"

\* C22 amended: cleanup runs exactly once, after the stages and before the
\* exit, and at exit the delete command for a machine whose creation was
\* attempted has been run and has ended, whenever the prompter agreed to
\* destroy it; when that command failed, cleanup is rejected and the exit
\* code is not 0.
C22_CleanupRunsDelete ==
    /\ CleanupOnceAndLast
    /\ (test.pc = "exited" /\ test.created /\ test.destroy)
       => /\ test.delete \in {"done", "failed"}
          /\ test.delete = "failed"
             => "cleanup" \in test.rejected /\ test.exited # <<0>>
    /\ (test.pc = "exited" /\ ~(test.created /\ test.destroy))
       => test.delete = "not run"

\* ensureStarted timed out in setup, the later stages were skipped, the
\* prompter agreed, the machine was deleted, and the process exited
C22_Witness ==
    /\ test.pc = "exited"
    /\ test.events = <<"prepareEnvironment", "setup", "cleanup", "exit">>
    /\ test.rejected = {"setup"}
    /\ test.created /\ test.destroy
    /\ test.delete = "done"
    /\ test.exited = <<1>>

\* C23 as stated: when the process has exited after a stage failed with a
\* TestError (constructed with exit code e, or with none), and cleanup did
\* not fail, the process exited with that error's exit code.
C23_ExitsWithTestErrorCode ==
    ( /\ test.pc = "exited"
      /\ Len(test.logged) = 1
      /\ test.logged[1].name = "TestError"
      /\ "cleanup" \notin test.rejected )
    => test.exited = <<test.logged[1].exitCode>>

\* a check failed inside automatedTests and the failure was absorbed, by
\* the section around it or by an allowAssertion handler, so that the chain
\* automatedTests returned is resolved
AbsorbedFailure ==
    /\ "runTests" \in {test.events[i] : i \in DOMAIN test.events}
    /\ \E i \in DOMAIN chain :
          /\ Ran(i, "it") /\ chain[i].mode = "fail"
          /\ \E j \in DOMAIN chain :
                /\ j > i /\ trace[j].ran
                /\ chain[j].op \in {"allowAssertion", "endSection"}
                /\ trace[j].in.state = "rejected"
                /\ trace[j].out.state = "resolved"
    /\ settled.state = "resolved"

SaidYes == \E i \in DOMAIN test.asked : test.asked[i].a

\* C25 as stated: createInstance is not called in a run in which one more
\* machine would bring the total above maxInstances, or in which some
\* instance is older than maxInstanceAge, unless the prompter said yes to
\* the runaway question; when it said no, prepareEnvironment fails with
\* TestError("Runaway servers detected.") and setup is not called.
C25_RunawayGuard ==
    /\ (test.created /\ ~SaidYes)
       => /\ test.current + 1 <= maxInstances
          /\ test.old = 0
    /\ (\E i \in DOMAIN test.asked : ~test.asked[i].a)
       => /\ ~test.created
          /\ "prepareEnvironment" \in test.rejected
          /\ test.pc = "setup"
             => test.promise
                  = Failed(TestErrorWithCode("Runaway servers detected.", 0))

\* two or more sections were started side by side and all have completed
AllDone == Len(par) >= 2 /\ \A s \in DOMAIN par : par[s].pc = "done"

\* C26 as stated: however the steps of sections started side by side
\* interleave, the indentation is never negative, and once they have all
\* completed it is back at its initial value 0.
C26_UnchainedSectionsKeepDepth ==
    /\ indentation >= 0
    /\ AllDone => indentation = 0

\* C27 as stated: a section whose contents completed without failure has
\* left its caller a promise resolved to the value contents returned (or
\* that the promise it returned resolved to).
C27_SectionResolvesToContentsValue ==
    \A s \in DOMAIN par :
       (par[s].pc = "done" /\ par[s].inner.state = "resolved")
       => par[s].value = par[s].returned

====
